---- MODULE Spec2Model ----
(***************************************************************************)
(* Association-rule mining pipeline of association_rules.py:              *)
(*   generate_frequent_itemsets -> generate_rules_from_itemsets ->        *)
(*   get_top_rules -> find_redundant_rules, as composed by main().        *)
(*                                                                         *)
(* A boolean DataFrame is a sequence of rows, each row the set of column  *)
(* indices whose flag is True.  Columns are numbered 1..NItems in column  *)
(* order.  Fractions (support, confidence, lift, thresholds) are pairs    *)
(* <<numerator, denominator>> of integers with a positive denominator, so *)
(* every comparison is the comparison of the exact ratios of row counts.  *)
(***************************************************************************)
EXTENDS Integers, Sequences, FiniteSets, TLC

\* ---- bounds of the model ------------------------------------------------
NItems == 3
MaxRows == 3
MaxTop == 2
NLabels == 3
MaxRules == 3

\* ---- values set by main() -----------------------------------------------
DefaultTopN == 25

Items == 1..NItems

\* thresholds the operations are called with; <<1,10>> and <<2,5>> are the
\* 0.10 and 0.40 of main(), <<3,2>> (1.5) and <<0,1>> lie outside (0,1]
MinSupports == {<<1, 10>>, <<1, 2>>, <<1, 1>>, <<3, 2>>, <<0, 1>>}
MinConfidences == {<<2, 5>>, <<1, 1>>, <<3, 2>>}
TopNs == (-1..MaxTop) \cup {DefaultTopN}

\* a >= b, a = b on fractions
Geq(a, b) == a[1] * b[2] >= b[1] * a[2]
Eq(a, b) == a[1] * b[2] = b[1] * a[2]

VARIABLES pc, df, min_support, min_confidence, top_n,
          candidates, frequent_itemsets, generated, rules, top_rules,
          redundant_indices, redundant_rules, err

vars == <<pc, df, min_support, min_confidence, top_n,
          candidates, frequent_itemsets, generated, rules, top_rules,
          redundant_indices, redundant_rules, err>>

\* ---- sequences ----------------------------------------------------------
RECURSIVE SortedSeq(_)
\* the elements of a finite set of integers in ascending order
SortedSeq(S) ==
    IF S = {} THEN <<>>
    ELSE LET m == CHOOSE x \in S : \A y \in S : x <= y
         IN <<m>> \o SortedSeq(S \ {m})

TupleSet(t) == {t[i] : i \in DOMAIN t}

RECURSIVE Flatten(_)
Flatten(ss) == IF ss = <<>> THEN <<>> ELSE Head(ss) \o Flatten(Tail(ss))

\* the entries of s at the positions in keep, in order
SelectIdx(s, keep) ==
    LET idx == SortedSeq({i \in DOMAIN s : i \in keep})
    IN [n \in DOMAIN idx |-> s[idx[n]]]

\* ---- apriori (mlxtend), as called at line 46 ----------------------------
\* number of rows in which every column of the combination is True
SupportCount(d, S) == Cardinality({r \in DOMAIN d : S \subseteq d[r]})

\* variant: the threshold is not applied
IsFrequentNoFilter(d, S, ms) == TRUE

\* support >= min_support, support being row count / rows
IsFrequent(d, S, ms) == Geq(<<SupportCount(d, S), Len(d)>>, ms)

\* variant: the extension is not restricted to items after the last one
generate_new_combinations_any_item(old) ==
    LET types == UNION {TupleSet(old[i]) : i \in DOMAIN old}
        ext(t) == LET valid == SortedSeq({x \in types : x \notin TupleSet(t)})
                  IN [n \in DOMAIN valid |-> t \o <<valid[n]>>]
    IN Flatten([i \in DOMAIN old |-> ext(old[i])])

\* every combination of the previous level extended by each item that occurs
\* in the previous level and is greater than the combination's last item
generate_new_combinations(old) ==
    LET types == UNION {TupleSet(old[i]) : i \in DOMAIN old}
        ext(t) == LET valid == SortedSeq({x \in types : x > t[Len(t)]})
                  IN [n \in DOMAIN valid |-> t \o <<valid[n]>>]
    IN Flatten([i \in DOMAIN old |-> ext(old[i])])

\* combin[_mask]
Filter(d, combin, ms) ==
    SelectIdx(combin, {i \in DOMAIN combin : IsFrequent(d, TupleSet(combin[i]), ms)})

\* the rows (support, itemsets) of one level of the returned frame
ItemsetRows(d, level) ==
    [i \in DOMAIN level |->
        [support |-> <<SupportCount(d, TupleSet(level[i])), Len(d)>>,
         itemsets |-> TupleSet(level[i])]]

\* variant: a level is put in front of the levels before it
ConcatReversed(res, level) == level \o res

\* the levels are concatenated in the order they were found
Concat(res, level) == res \o level

RECURSIVE AprioriLoop(_, _, _, _, _)
\* the while loop over max_itemset: res is the frame of the levels stored so
\* far, cands the candidate combinations generated at each level
AprioriLoop(d, ms, prev, res, cands) ==
    LET combin == generate_new_combinations(prev)
        kept == Filter(d, combin, ms)
    IN IF combin = <<>> THEN [itemsets |-> res, cands |-> cands]
       ELSE IF kept = <<>> THEN [itemsets |-> res, cands |-> Append(cands, combin)]
       ELSE AprioriLoop(d, ms, kept, Concat(res, ItemsetRows(d, kept)),
                        Append(cands, combin))

\* level 1 is every column; the loop then runs from it
apriori(d, ms) ==
    LET cols == [i \in 1..NItems |-> <<i>>]
        L1 == Filter(d, cols, ms)
    IN AprioriLoop(d, ms, L1, ItemsetRows(d, L1), <<cols>>)

\* ---- association_rules (mlxtend), as called at lines 62-64 --------------
\* a / b on fractions
Div(a, b) == <<a[1] * b[2], a[2] * b[1]>>

RECURSIVE Combinations(_, _)
\* itertools.combinations: the r-element subsets of the sequence s, in
\* lexicographic order of positions
Combinations(s, r) ==
    IF r = 0 THEN <<{}>>
    ELSE IF Len(s) < r THEN <<>>
    ELSE LET with == Combinations(Tail(s), r - 1)
         IN [n \in DOMAIN with |-> {Head(s)} \cup with[n]] \o Combinations(Tail(s), r)

HasKey(itemsets, S) == \E i \in DOMAIN itemsets : itemsets[i].itemsets = S

\* frequent_items_dict[S]
Lookup(itemsets, S) ==
    itemsets[CHOOSE i \in DOMAIN itemsets : itemsets[i].itemsets = S].support

\* the antecedents enumerated for itemset k: sizes len(k)-1 down to 1
Antecedents(k) ==
    LET s == SortedSeq(k)
        n == Len(s)
    IN Flatten([m \in 1..(n - 1) |-> Combinations(s, n - m)])

\* lift = confidence / support(consequent)
Lift(sAC, sA, sC) == Div(Div(sAC, sA), sC)

\* the row of the rule A -> k \ A
MakeRule(itemsets, k, A) ==
    LET sAC == Lookup(itemsets, k)
        sA == Lookup(itemsets, A)
        sC == Lookup(itemsets, k \ A)
    IN [antecedents |-> A, consequents |-> k \ A, support |-> sAC,
        confidence |-> Div(sAC, sA), lift |-> Lift(sAC, sA, sC)]

\* variant: the threshold is not applied
ScoreAlwaysPasses(r, mc) == TRUE

\* score >= min_threshold with metric="confidence"
ScorePasses(r, mc) == Geq(r.confidence, mc)

\* a subset the dictionary lookup would not find
MissingKey(itemsets) ==
    \E i \in DOMAIN itemsets :
        \E A \in SUBSET itemsets[i].itemsets :
            /\ A # {} /\ A # itemsets[i].itemsets
            /\ ~HasKey(itemsets, A)

\* the rules of every itemset in frame order that pass the threshold
association_rules(itemsets, mc) ==
    LET perSet(i) ==
            LET k == itemsets[i].itemsets
                ants == Antecedents(k)
                all == [n \in DOMAIN ants |-> MakeRule(itemsets, k, ants[n])]
            IN SelectIdx(all, {n \in DOMAIN all : ScorePasses(all[n], mc)})
    IN Flatten([i \in DOMAIN itemsets |-> perSet(i)])

\* ---- sort_values(by="lift", ascending=False), line 65 -------------------
Gt(a, b) == a[1] * b[2] > b[1] * a[2]

\* descending by lift, equal lifts in their original order
StableDesc(rs) ==
    LET pos(i) == 1 + Cardinality({j \in DOMAIN rs : Gt(rs[j].lift, rs[i].lift)})
                    + Cardinality({j \in DOMAIN rs : j < i /\ Eq(rs[j].lift, rs[i].lift)})
    IN [p \in DOMAIN rs |-> rs[CHOOSE i \in DOMAIN rs : pos(i) = p]]

\* descending by lift, equal lifts in the reverse of their original order
TiesReversedDesc(rs) ==
    LET pos(i) == 1 + Cardinality({j \in DOMAIN rs : Gt(rs[j].lift, rs[i].lift)})
                    + Cardinality({j \in DOMAIN rs : j > i /\ Eq(rs[j].lift, rs[i].lift)})
    IN [p \in DOMAIN rs |-> rs[CHOOSE i \in DOMAIN rs : pos(i) = p]]

\* The call passes no kind=, so pandas sorts with its default "quicksort",
\* which does not promise the order of equal keys: any order that descends
\* by lift is a possible result.  Two of them are modelled, the one that
\* keeps every run of equal lifts in its original order and the one that
\* reverses every such run.
sort_values(rs) == {StableDesc(rs), TiesReversedDesc(rs)}

\* ---- get_top_rules, find_redundant_rules --------------------------------
Min(a, b) == IF a <= b THEN a ELSE b
Max(a, b) == IF a >= b THEN a ELSE b

\* variant: nothing is cut off
head_whole(rs, n) == rs

\* DataFrame.head(n): the first n rows; for negative n all but the last -n
head(rs, n) ==
    IF n >= 0 THEN SubSeq(rs, 1, Min(n, Len(rs)))
    ELSE SubSeq(rs, 1, Max(Len(rs) + n, 0))

\* variant: subset instead of strict subset
DominatedLoose(rs, i) ==
    \E j \in DOMAIN rs :
        /\ i # j
        /\ rs[j].antecedents \subseteq rs[i].antecedents
        /\ rs[i].consequents = rs[j].consequents

\* variant: the consequents are not compared
DominatedAnyConsequent(rs, i) ==
    \E j \in DOMAIN rs :
        /\ i # j
        /\ rs[j].antecedents \subseteq rs[i].antecedents
        /\ rs[j].antecedents # rs[i].antecedents

\* the inner loop of find_redundant_rules for rule i: some other row j has a
\* strict subset of the antecedents and the same consequents
Dominated(rs, i) ==
    \E j \in DOMAIN rs :
        /\ i # j
        /\ rs[j].antecedents \subseteq rs[i].antecedents
        /\ rs[j].antecedents # rs[i].antecedents
        /\ rs[i].consequents = rs[j].consequents

\* redundant_indices after the outer loop, in row order
RedundantIndices(rs) == SortedSeq({i \in DOMAIN rs : Dominated(rs, i)})

\* rules_df.loc[redundant_indices]
Loc(rs, idx) == [n \in DOMAIN idx |-> rs[idx[n]]]

\* ---- the pipeline of main() ---------------------------------------------
RECURSIVE Code(_)
Code(r) == IF r = {} THEN 0
           ELSE LET x == CHOOSE x \in r : TRUE IN 2 ^ (x - 1) + Code(r \ {x})

\* the boolean tables of 1..MaxRows rows over the columns; no operation reads
\* the order of the rows, so one table stands for all its row permutations
Tables ==
    UNION {{t \in [1..n -> SUBSET Items] :
                \A i \in 1..(n - 1) : Code(t[i]) <= Code(t[i + 1])} : n \in 1..MaxRows}

Init ==
    /\ pc = "loaded"
    /\ df \in Tables
    /\ min_support = <<1, 10>>
    /\ min_confidence = <<2, 5>>
    /\ top_n = DefaultTopN
    /\ candidates = <<>>
    /\ frequent_itemsets = <<>>
    /\ generated = <<>>
    /\ rules = <<>>
    /\ top_rules = <<>>
    /\ redundant_indices = <<>>
    /\ redundant_rules = <<>>
    /\ err = "none"

\* Step 2; apriori raises ValueError when min_support <= 0
generate_frequent_itemsets ==
    /\ pc = "loaded"
    /\ \E ms \in MinSupports :
        /\ min_support' = ms
        /\ IF ms[1] <= 0
           THEN /\ pc' = "failed"
                /\ err' = "ValueError"
                /\ UNCHANGED <<candidates, frequent_itemsets>>
           ELSE LET out == apriori(df, ms)
                IN /\ pc' = "mined"
                   /\ frequent_itemsets' = out.itemsets
                   /\ candidates' = out.cands
                   /\ err' = "none"
    /\ UNCHANGED <<df, min_confidence, top_n, generated, rules, top_rules,
                   redundant_indices, redundant_rules>>

\* Step 3; association_rules raises ValueError on an empty frame and KeyError
\* when a subset's support is missing from the frame
generate_rules_from_itemsets ==
    /\ pc = "mined"
    /\ \E mc \in MinConfidences :
        /\ min_confidence' = mc
        /\ IF frequent_itemsets = <<>>
           THEN /\ pc' = "failed"
                /\ err' = "ValueError"
                /\ UNCHANGED <<generated, rules>>
           ELSE IF MissingKey(frequent_itemsets)
           THEN /\ pc' = "failed"
                /\ err' = "KeyError"
                /\ UNCHANGED <<generated, rules>>
           ELSE /\ pc' = "ruled"
                /\ generated' = association_rules(frequent_itemsets, mc)
                /\ rules' \in sort_values(generated')
                /\ err' = "none"
    /\ UNCHANGED <<df, min_support, top_n, candidates, frequent_itemsets,
                   top_rules, redundant_indices, redundant_rules>>

\* Step 4
get_top_rules ==
    /\ pc = "ruled"
    /\ \E n \in TopNs :
        /\ top_n' = n
        /\ top_rules' = head(rules, n)
    /\ pc' = "topped"
    /\ UNCHANGED <<df, min_support, min_confidence, candidates, frequent_itemsets,
                   generated, rules, redundant_indices, redundant_rules, err>>

\* Step 5
find_redundant_rules ==
    /\ pc = "topped"
    /\ redundant_indices' = RedundantIndices(top_rules)
    /\ redundant_rules' = Loc(top_rules, redundant_indices')
    /\ pc' = "done"
    /\ UNCHANGED <<df, min_support, min_confidence, top_n, candidates,
                   frequent_itemsets, generated, rules, top_rules, err>>

Next ==
    \/ generate_frequent_itemsets
    \/ generate_rules_from_itemsets
    \/ get_top_rules
    \/ find_redundant_rules

Spec == Init /\ [][Next]_vars

\* ---- find_redundant_rules on an arbitrary rule frame --------------------
Labels == 1..NLabels

\* find_redundant_rules compares consequents for equality only
Consequents == {{1}, {2}}

\* rows of a rule frame with a RangeIndex; the metric columns are not read
ArbitraryRules ==
    {[antecedents |-> A, consequents |-> C, support |-> <<1, 1>>,
      confidence |-> <<1, 1>>, lift |-> <<1, 1>>] :
        A \in (SUBSET Labels) \ {{}}, C \in Consequents}

RuleLists == UNION {[1..n -> ArbitraryRules] : n \in 0..MaxRules}

InitRedundant ==
    /\ pc = "topped"
    /\ df = <<{}>>
    /\ min_support = <<1, 10>>
    /\ min_confidence = <<2, 5>>
    /\ top_n = DefaultTopN
    /\ candidates = <<>>
    /\ frequent_itemsets = <<>>
    /\ generated = <<>>
    /\ rules = <<>>
    /\ top_rules \in RuleLists
    /\ redundant_indices = <<>>
    /\ redundant_rules = <<>>
    /\ err = "none"

NextRedundant == find_redundant_rules

SpecRedundant == InitRedundant /\ [][NextRedundant]_vars

\* ---- properties ---------------------------------------------------------
\* a threshold in (0, 1]
InDomain(t) == t[1] > 0 /\ t[1] <= t[2]

\* the number of rows of df that contain every label of S
RowsContaining(S) == Cardinality({r \in 1..Len(df) : \A x \in S : x \in df[r]})
ExactSupport(S) == <<RowsContaining(S), Len(df)>>

Mined == pc \in {"mined", "ruled", "topped", "done"}
Ruled == pc \in {"ruled", "topped", "done"}
Topped == pc \in {"topped", "done"}

FrequentSets == {frequent_itemsets[i].itemsets : i \in DOMAIN frequent_itemsets}

\* C1: every itemset returned by generate_frequent_itemsets carries the exact
\* ratio rows-containing-it / rows as its support, and that ratio is at least
\* min_support.
C1_SupportAtLeastMin ==
    Mined =>
        \A i \in DOMAIN frequent_itemsets :
            /\ frequent_itemsets[i].support = ExactSupport(frequent_itemsets[i].itemsets)
            /\ Geq(ExactSupport(frequent_itemsets[i].itemsets), min_support)

\* an in-domain threshold that keeps a 2-itemset and drops a single item
C1_Witness ==
    /\ pc = "mined"
    /\ InDomain(min_support)
    /\ \E i \in DOMAIN frequent_itemsets : Cardinality(frequent_itemsets[i].itemsets) = 2
    /\ \E x \in Items : ~Geq(ExactSupport({x}), min_support)

\* C2: the mined frame is downward closed, and every non-empty proper subset
\* of an itemset stands earlier in the frame than the itemset; cardinality
\* never decreases along the frame.
C2_DownwardClosedInOrder ==
    Mined =>
        /\ \A i \in DOMAIN frequent_itemsets :
              \A T \in SUBSET frequent_itemsets[i].itemsets :
                  (T # {} /\ T # frequent_itemsets[i].itemsets) =>
                      \E j \in 1..(i - 1) : frequent_itemsets[j].itemsets = T
        /\ \A i, j \in DOMAIN frequent_itemsets :
              i < j => Cardinality(frequent_itemsets[i].itemsets)
                          <= Cardinality(frequent_itemsets[j].itemsets)

\* a 3-itemset was mined
C2_Witness ==
    /\ pc = "mined"
    /\ \E i \in DOMAIN frequent_itemsets : Cardinality(frequent_itemsets[i].itemsets) = 3

\* C3: every returned rule has non-empty disjoint sides whose union is a mined
\* itemset, confidence = rows(A u C) / rows(A) >= min_confidence, and
\* lift = confidence / support(C), as exact ratios of row counts.
C3_RuleMetrics ==
    Ruled =>
        \A p \in DOMAIN rules :
            LET A == rules[p].antecedents
                C == rules[p].consequents
            IN /\ A # {} /\ C # {} /\ A \cap C = {}
               /\ (A \cup C) \in FrequentSets
               /\ Eq(rules[p].support, ExactSupport(A \cup C))
               /\ Eq(rules[p].confidence, <<RowsContaining(A \cup C), RowsContaining(A)>>)
               /\ Geq(rules[p].confidence, min_confidence)
               /\ Eq(rules[p].lift, <<RowsContaining(A \cup C) * Len(df),
                                      RowsContaining(A) * RowsContaining(C)>>)

\* rules were returned, one split of a mined itemset fell below the
\* threshold and was dropped, and one returned rule has lift other than 1
C3_Witness ==
    /\ pc = "ruled"
    /\ InDomain(min_confidence)
    /\ Len(rules) < Len(association_rules(frequent_itemsets, <<0, 1>>))
    /\ \E p \in DOMAIN rules : ~Eq(rules[p].lift, <<1, 1>>)

PositionIn(rs, r) == CHOOSE i \in DOMAIN rs : rs[i] = r

\* C4: the returned rules are non-increasing in lift and rules of equal lift
\* keep the order in which association_rules generated them.
C4_StableByLift ==
    Ruled =>
        \A p, q \in DOMAIN rules :
            p < q =>
                /\ Geq(rules[p].lift, rules[q].lift)
                /\ Eq(rules[p].lift, rules[q].lift) =>
                       PositionIn(generated, rules[p]) < PositionIn(generated, rules[q])

StrictDominator(a, b) ==
    /\ \A x \in a.antecedents : x \in b.antecedents
    /\ \E x \in b.antecedents : x \notin a.antecedents
    /\ a.consequents = b.consequents

\* the rows of top_rules that another row of top_rules dominates
DominatedRows == {i \in DOMAIN top_rules :
                    \E j \in DOMAIN top_rules : j # i /\ StrictDominator(top_rules[j], top_rules[i])}

\* C5: find_redundant_rules returns exactly the rows that some other row
\* dominates (strict-subset antecedents, equal consequents), each once, in
\* the order of the input.
C5_ExactlyDominated ==
    pc = "done" =>
        /\ {redundant_indices[n] : n \in DOMAIN redundant_indices} = DominatedRows
        /\ \A m, n \in DOMAIN redundant_indices :
              m < n => redundant_indices[m] < redundant_indices[n]
        /\ Len(redundant_rules) = Len(redundant_indices)
        /\ \A n \in DOMAIN redundant_rules :
              redundant_rules[n] = top_rules[redundant_indices[n]]

\* a row with two dominators is reported once, next to a row equal to another
\* row, which is not reported
C5_Witness ==
    /\ pc = "done"
    /\ Len(redundant_indices) = 1
    /\ \E i \in DOMAIN top_rules :
          /\ Cardinality({j \in DOMAIN top_rules :
                            StrictDominator(top_rules[j], top_rules[i])}) >= 2
    /\ \E i, j \in DOMAIN top_rules : i # j /\ top_rules[i] = top_rules[j]

\* C6: redundancy is scoped to top_rules: every reported rule is a row of
\* top_rules, and with top_n >= 0 a row all of whose dominators in rules
\* stand after the first top_n rows is not reported.
C6_ScopedToTop ==
    pc = "done" =>
        /\ \A n \in DOMAIN redundant_rules :
              \E i \in DOMAIN top_rules : top_rules[i] = redundant_rules[n]
        /\ top_n >= 0 =>
              \A i \in DOMAIN top_rules :
                  (\A j \in DOMAIN rules :
                       StrictDominator(rules[j], top_rules[i]) => j > top_n)
                      => \A n \in DOMAIN redundant_indices : redundant_indices[n] # i

\* a row of top_rules is dominated only by rules cut off by top_n, and is
\* not reported
C6_Witness ==
    /\ pc = "done"
    /\ top_n >= 0
    /\ \E i \in DOMAIN top_rules :
          /\ \E j \in DOMAIN rules : StrictDominator(rules[j], top_rules[i])
          /\ \A j \in DOMAIN rules : StrictDominator(rules[j], top_rules[i]) => j > top_n
          /\ \A n \in DOMAIN redundant_indices : redundant_indices[n] # i

\* C7: a stage called with a threshold or count outside its domain fails and
\* yields no result.
C7_RejectsOutOfDomain ==
    /\ (pc # "loaded" /\ ~InDomain(min_support)) => (pc = "failed" /\ err # "none")
    /\ (pc \in {"ruled", "topped", "done"} /\ ~InDomain(min_confidence)) => FALSE
    /\ (pc \in {"topped", "done"} /\ top_n < 0) => FALSE

\* C8: with an in-domain min_support and no frequent item, mining returns
\* the empty frame without error, rule generation returns no rules without
\* error, and top_rules and redundant_rules are empty.
C8_EmptyItemsetsGiveEmptyRules ==
    (pc # "loaded" /\ InDomain(min_support) /\ frequent_itemsets = <<>>) =>
        /\ err = "none"
        /\ pc # "failed"
        /\ rules = <<>> /\ top_rules = <<>> /\ redundant_rules = <<>>

LevelSets(k) == {S \in FrequentSets : Cardinality(S) = k}

NoDuplicateCandidates(level) ==
    \A m, n \in DOMAIN level : m # n => TupleSet(level[m]) # TupleSet(level[n])

\* C9 as stated: at every level k >= 2 every (k-1)-subset of every candidate
\* is in L_{k-1}, and no candidate is generated twice at the level.
C9_EverySubsetFrequent ==
    Mined =>
        \A k \in 2..Len(candidates) :
            /\ \A n \in DOMAIN candidates[k] :
                  \A T \in SUBSET TupleSet(candidates[k][n]) :
                      Cardinality(T) = k - 1 => T \in LevelSets(k - 1)
            /\ NoDuplicateCandidates(candidates[k])

\* C9: at every level k >= 2 every candidate has k labels, its first k-1
\* labels in column order form an itemset of L_{k-1}, its last label occurs in
\* some itemset of L_{k-1}, and no candidate is generated twice at the level.
C9_PrefixFrequent ==
    Mined =>
        \A k \in 2..Len(candidates) :
            /\ \A n \in DOMAIN candidates[k] :
                  LET c == candidates[k][n]
                  IN /\ Len(c) = k
                     /\ Cardinality(TupleSet(c)) = k
                     /\ \A a \in 1..(k - 1) : c[a] < c[a + 1]
                     /\ {c[a] : a \in 1..(k - 1)} \in LevelSets(k - 1)
                     /\ \E S \in LevelSets(k - 1) : c[k] \in S
            /\ NoDuplicateCandidates(candidates[k])

\* support was counted for a 3-candidate one of whose pairs is not frequent
C9_Witness ==
    /\ pc = "mined"
    /\ Len(candidates) >= 3
    /\ \E n \in DOMAIN candidates[3] :
          \E T \in SUBSET TupleSet(candidates[3][n]) :
              Cardinality(T) = 2 /\ T \notin FrequentSets

Reported == {redundant_indices[n] : n \in DOMAIN redundant_indices}

\* C10: in a frame of rules with non-empty antecedents, every reported rule
\* has a dominator that is not reported and has at least two antecedent
\* labels, and every consequent of the frame keeps an unreported rule.
C10_UnreportedDominator ==
    (pc = "done" /\ \A i \in DOMAIN top_rules : top_rules[i].antecedents # {}) =>
        /\ \A i \in Reported :
              /\ \E j \in DOMAIN top_rules :
                    j \notin Reported /\ StrictDominator(top_rules[j], top_rules[i])
              /\ Cardinality(top_rules[i].antecedents) >= 2
        /\ \A i \in DOMAIN top_rules :
              \E j \in DOMAIN top_rules :
                  j \notin Reported /\ top_rules[j].consequents = top_rules[i].consequents

\* a reported rule one of whose dominators is itself reported
C10_Witness ==
    /\ pc = "done"
    /\ \A i \in DOMAIN top_rules : top_rules[i].antecedents # {}
    /\ \E i, j \in Reported : StrictDominator(top_rules[j], top_rules[i])

====
